---------------------------- MODULE Spec2Model ----------------------------
(***************************************************************************)
(* Model of teleop/utils/data_process/check_data_integrity.py:             *)
(* DataIntegrityChecker (one episode) and check_directory (a batch).       *)
(*                                                                         *)
(* Python values are modelled as follows.                                  *)
(*   dict with fixed-list lookups   function whose DOMAIN is the key set   *)
(*   dict iterated with .items()    sequence of <<key, value>> pairs       *)
(*   list                           sequence; Python index i is i + 1 here *)
(*   float joint value              integer count of quarter radians       *)
(*   f-string message               record Msg(kind, frame, key, a, b)     *)
(***************************************************************************)
EXTENDS Integers, Sequences, FiniteSets, TLC

VARIABLES
    record_file,   \* what lies at self.data_path
    files,         \* media paths that exist under self.data_dir
    pc,            \* position inside check_all
    data,          \* check_all's local: the parsed JSON
    data_array,    \* check_all's local: data.get('data', [])
    errors,        \* self.errors
    warnings,      \* self.warnings
    stats,         \* self.stats
    calls,         \* the methods check_all has invoked, in order
    returned,      \* <<>> until check_all returns, then <<[success, report]>>
    run,           \* how many checkers have been constructed on this input
    prev,          \* the reports of the earlier runs on this input
    locals,        \* locals of the method under study (camera_counts, ...)
    directory,     \* check_directory: what lies at dir_path
    data_files,    \* check_directory: the sorted episodes
    results,       \* check_directory: results
    all_success,   \* check_directory: all_success
    dpc,           \* position inside check_directory
    dir_returned   \* <<>> until check_directory returns, then <<value>>

vars == <<record_file, files, pc, data, data_array, errors, warnings, stats,
          calls, returned, run, prev, locals, directory, data_files,
          results, all_success, dpc, dir_returned>>

checkerVars == <<pc, data, data_array, errors, warnings, stats, calls, returned>>
dirVars == <<directory, data_files, results, all_success, dpc, dir_returned>>

---------------------------------------------------------------------------
(* Python helpers *)

EmptyDict == [x \in {} |-> 0]

Get(d, k, dflt) == IF k \in DOMAIN d THEN d[k] ELSE dflt

Min(a, b) == IF a < b THEN a ELSE b

Abs(x) == IF x < 0 THEN 0 - x ELSE x

\* Python's list index i
At(list, i) == list[i + 1]

\* list[:n]
Take(list, n) == SubSeq(list, 1, Min(Len(list), n))

RECURSIVE ConcatRange(_, _, _)
\* the lists F(lo), ..., F(hi) appended in loop order
ConcatRange(F(_), lo, hi) ==
    IF lo > hi THEN <<>> ELSE F(lo) \o ConcatRange(F, lo + 1, hi)

\* for x in list: out += F(x)
ConcatOver(F(_), list) ==
    LET G(i) == F(list[i]) IN ConcatRange(G, 1, Len(list))

Msg(kind, frame, key, a, b) ==
    [kind |-> kind, frame |-> frame, key |-> key, a |-> a, b |-> b]

\* the frame slot of a message that names no frame
NoFrame == 0 - 1

Kinds(list) == [i \in 1..Len(list) |-> list[i].kind]

CountKind(list, kind) == Cardinality({i \in 1..Len(list) : list[i].kind = kind})

\* self.errors, self.warnings, self.stats as one value
Self(e, w, s) == [errors |-> e, warnings |-> w, stats |-> s]

AddErrors(self, list) == [self EXCEPT !.errors = @ \o list]

AddWarnings(self, list) == [self EXCEPT !.warnings = @ \o list]

SetStat(self, k, v) == [self EXCEPT !.stats = (k :> v) @@ @]

---------------------------------------------------------------------------
(* DataIntegrityChecker.__init__ *)

\* errors, warnings and stats kept on the class: every instance shares them
SharedChecker(earlier) == earlier

\* a checker constructed after the checker `earlier` was used: every instance
\* gets lists and a dict of its own
NewChecker(earlier) == Self(<<>>, <<>>, EmptyDict)

JsonNull == [type |-> "null", obj |-> EmptyDict]

---------------------------------------------------------------------------
(* _check_file_exists *)

CheckFileExists(self, file) ==
    IF file.kind = "missing"
    THEN [ok |-> FALSE,
          self |-> AddErrors(self, <<Msg("file_missing", NoFrame, "", 0, 0)>>)]
    ELSE IF file.kind = "not_file"
    THEN [ok |-> FALSE,
          self |-> AddErrors(self, <<Msg("not_a_file", NoFrame, "", 0, 0)>>)]
    ELSE [ok |-> TRUE, self |-> SetStat(self, "file_size_mb", file.size)]

(* _load_json: json.load's value, or None after recording the exception *)

\* the except branches record the error and return {} instead of None
LoadJsonEmptyOnError(self, file) ==
    IF file.kind = "bad_json"
    THEN [data |-> [type |-> "object", obj |-> EmptyDict],
          self |-> AddErrors(self, <<Msg("json_decode_error", NoFrame, "", 0, 0)>>)]
    ELSE IF file.kind = "unreadable"
    THEN [data |-> [type |-> "object", obj |-> EmptyDict],
          self |-> AddErrors(self, <<Msg("read_error", NoFrame, "", 0, 0)>>)]
    ELSE [data |-> file.json, self |-> self]

LoadJson(self, file) ==
    IF file.kind = "bad_json"
    THEN [data |-> JsonNull,
          self |-> AddErrors(self, <<Msg("json_decode_error", NoFrame, "", 0, 0)>>)]
    ELSE IF file.kind = "unreadable"
    THEN [data |-> JsonNull,
          self |-> AddErrors(self, <<Msg("read_error", NoFrame, "", 0, 0)>>)]
    ELSE [data |-> file.json, self |-> self]

---------------------------------------------------------------------------
(* _check_data_structure *)

RequiredKeys == <<"info", "text", "data">>

\* key in data, for a dict and for a JSON array that holds no such string
HasKey(d, key) == d.type = "object" /\ key \in DOMAIN d.obj

CheckDataStructure(self, d) ==
    LET F(key) == IF ~HasKey(d, key)
                  THEN <<Msg("missing_top_key", NoFrame, key, 0, 0)>>
                  ELSE <<>>
    IN  AddErrors(self, ConcatOver(F, RequiredKeys))

(* _check_info_section *)

RequiredInfoFields == <<"version", "date", "author", "image", "depth", "joint_names">>

JointParts == <<"left_arm", "right_arm", "left_ee", "right_ee">>

Truthy(d, k) == k \in DOMAIN d /\ d[k] # 0

InfoImageStats(self, info) ==
    IF "image" \in DOMAIN info
       /\ Truthy(info["image"], "width") /\ Truthy(info["image"], "height")
    THEN SetStat(SetStat(self, "image_resolution",
                         <<info["image"]["width"], info["image"]["height"]>>),
                 "image_fps",
                 IF "fps" \in DOMAIN info["image"]
                 THEN <<info["image"]["fps"]>> ELSE <<>>)
    ELSE self

RECURSIVE InfoJointStats(_, _, _)
InfoJointStats(self, joint_names, n) ==
    IF n > Len(JointParts) THEN self
    ELSE LET part == JointParts[n]
             next == IF part \in DOMAIN joint_names
                     THEN SetStat(self, part \o "_joints", Len(joint_names[part]))
                     ELSE self
         IN  InfoJointStats(next, joint_names, n + 1)

CheckInfoSection(self, info) ==
    LET F(field) == IF field \notin DOMAIN info
                    THEN <<Msg("info_missing_field", NoFrame, field, 0, 0)>>
                    ELSE <<>>
        s1 == AddErrors(self, ConcatOver(F, RequiredInfoFields))
        s2 == InfoImageStats(s1, info)
    IN  IF "joint_names" \in DOMAIN info
        THEN InfoJointStats(s2, info["joint_names"], 1)
        ELSE s2

(* _check_text_section *)

TextFields == <<"goal", "desc", "steps">>

CheckTextSection(self, text) ==
    LET F(field) == IF field \in DOMAIN text /\ text[field] = ""
                    THEN <<Msg("text_empty", NoFrame, field, 0, 0)>>
                    ELSE <<>>
    IN  AddWarnings(self, ConcatOver(F, TextFields))

---------------------------------------------------------------------------
(* _check_data_array *)

RequiredFrameKeys == <<"idx", "colors", "depths", "states", "actions">>

Sections == <<"states", "actions">>

BodyParts == <<"left_arm", "right_arm", "left_ee", "right_ee", "body">>

\* idx compared with a one-based position
IdxMismatchOneBased(frame, i) == "idx" \notin DOMAIN frame \/ frame["idx"] # i + 1

\* frame.get('idx') != i, with None for a frame that has no idx
IdxMismatch(frame, i) == "idx" \notin DOMAIN frame \/ frame["idx"] # i

FrameKeyErrors(i, frame) ==
    LET F(key) == IF key \notin DOMAIN frame
                  THEN <<Msg("frame_missing_key", i, key, 0, 0)>>
                  ELSE <<>>
    IN  ConcatOver(F, RequiredFrameKeys)

FrameIdxErrors(i, frame) ==
    IF IdxMismatch(frame, i)
    THEN <<Msg("idx_mismatch", i,
               IF "idx" \in DOMAIN frame THEN "int" ELSE "None",
               i, Get(frame, "idx", 0))>>
    ELSE <<>>

FrameQposErrors(i, frame) ==
    LET P(section) ==
            LET Q(part) ==
                    IF part \in DOMAIN frame[section]
                       /\ "qpos" \notin DOMAIN frame[section][part]
                    THEN <<Msg("missing_qpos", i, section \o "." \o part, 0, 0)>>
                    ELSE <<>>
            IN  IF section \in DOMAIN frame
                THEN ConcatOver(Q, BodyParts) ELSE <<>>
    IN  ConcatOver(P, Sections)

FrameErrors(i, frame) ==
    FrameKeyErrors(i, frame) \o FrameIdxErrors(i, frame) \o FrameQposErrors(i, frame)

\* _check_data_array without its "if not data_array" guard: an empty array passes
CheckDataArrayVacuous(self, arr) ==
    LET F(i) == FrameErrors(i, At(arr, i))
    IN  AddErrors(self, ConcatRange(F, 0, Len(arr) - 1))

CheckDataArray(self, arr) ==
    IF Len(arr) = 0
    THEN AddErrors(self, <<Msg("data_empty", NoFrame, "", 0, 0)>>)
    ELSE LET F(i) == FrameErrors(i, At(arr, i))
         IN  AddErrors(SetStat(self, "total_frames", Len(arr)),
                       ConcatRange(F, 0, Len(arr) - 1))

---------------------------------------------------------------------------
(* _check_image_files *)

\* if len(missing_images) <= 10
ImageDisplayCap == 10

\* missing_images[:5]
ImageDisplayHead == 5

\* every (frame, camera_id, img_path) the two nested loops visit, in loop order
ColorItems(arr) ==
    LET F(i) == LET colors == Get(At(arr, i), "colors", <<>>)
                IN  [k \in 1..Len(colors) |->
                        [frame |-> i, id |-> colors[k][1], path |-> colors[k][2]]]
    IN  ConcatRange(F, 0, Len(arr) - 1)

RECURSIVE CameraCountsFrom(_, _, _)
\* camera_counts[camera_id] = camera_counts.get(camera_id, 0) + 1, item by item
CameraCountsFrom(items, k, counts) ==
    IF k > Len(items) THEN counts
    ELSE CameraCountsFrom(items, k + 1,
             (items[k].id :> (Get(counts, items[k].id, 0) + 1)) @@ counts)

\* the count taken only after the existence check has passed
CameraCountsExisting(arr) ==
    LET Exists(item) == item.path \in files
    IN  CameraCountsFrom(SelectSeq(ColorItems(arr), Exists), 1, EmptyDict)

CameraCounts(arr) == CameraCountsFrom(ColorItems(arr), 1, EmptyDict)

RECURSIVE CameraOrderFrom(_, _, _)
\* list(camera_counts.keys()): the identifiers in order of first insertion
CameraOrderFrom(items, k, order) ==
    IF k > Len(items) THEN order
    ELSE CameraOrderFrom(items, k + 1,
             IF \E j \in 1..Len(order) : order[j] = items[k].id
             THEN order ELSE Append(order, items[k].id))

PathExists(path, existing) == path \in existing

MissingImages(arr, existing) ==
    LET items == ColorItems(arr)
        F(k) == IF ~PathExists(items[k].path, existing)
                THEN <<Msg("missing_image", items[k].frame, items[k].path, 0, 0)>>
                ELSE <<>>
    IN  ConcatRange(F, 1, Len(items))

\* the errors appended for a non-empty missing list
MissingImageErrors(missing) ==
    IF Len(missing) = 0 THEN <<>>
    ELSE <<Msg("missing_images", NoFrame, "", Len(missing), 0)>>
         \o (IF Len(missing) <= ImageDisplayCap
             THEN missing
             ELSE Take(missing, ImageDisplayHead)
                  \o <<Msg("more_missing_images", NoFrame, "",
                           Len(missing) - ImageDisplayHead, 0)>>)

CheckImageFiles(self, arr, existing) ==
    LET s1 == SetStat(self, "cameras", CameraOrderFrom(ColorItems(arr), 1, <<>>))
        s2 == SetStat(s1, "camera_counts", CameraCounts(arr))
    IN  AddErrors(s2, MissingImageErrors(MissingImages(arr, existing)))

(* _check_depth_files *)

HasDepth(arr) ==
    \E i \in 0..(Len(arr) - 1) : Len(Get(At(arr, i), "depths", <<>>)) > 0

MissingDepths(arr, existing) ==
    LET F(i) == LET depths == Get(At(arr, i), "depths", <<>>)
                    D(k) == IF ~PathExists(depths[k][2], existing)
                            THEN <<Msg("missing_depth", i, depths[k][2], 0, 0)>>
                            ELSE <<>>
                IN  ConcatRange(D, 1, Len(depths))
    IN  ConcatRange(F, 0, Len(arr) - 1)

\* _check_depth_files with the depth stream required: its absence is an error
CheckDepthFilesRequired(self, arr, existing) ==
    IF ~HasDepth(arr)
    THEN AddErrors(self, <<Msg("no_depth", NoFrame, "", 0, 0)>>)
    ELSE IF Len(MissingDepths(arr, existing)) > 0
    THEN AddErrors(self, <<Msg("missing_depths", NoFrame, "",
                               Len(MissingDepths(arr, existing)), 0)>>)
    ELSE self

CheckDepthFiles(self, arr, existing) ==
    IF ~HasDepth(arr)
    THEN AddWarnings(self, <<Msg("no_depth", NoFrame, "", 0, 0)>>)
    ELSE IF Len(MissingDepths(arr, existing)) > 0
    THEN AddErrors(self, <<Msg("missing_depths", NoFrame, "",
                               Len(MissingDepths(arr, existing)), 0)>>)
    ELSE self

(* _check_audio_files *)

\* frame.get('audios'): None when absent
NoAudio == [type |-> "None", path |-> ""]

\* bool(audios): None and the empty string are falsy
AudioTruthy(audios) == audios.type # "None" /\ ~(audios.type = "str" /\ audios.path = "")

HasAudio(arr) ==
    \E i \in 0..(Len(arr) - 1) : AudioTruthy(Get(At(arr, i), "audios", NoAudio))

MissingAudios(arr, existing) ==
    LET F(i) == LET audios == Get(At(arr, i), "audios", NoAudio)
                IN  IF AudioTruthy(audios) /\ audios.type = "str"
                       /\ ~PathExists(audios.path, existing)
                    THEN <<Msg("missing_audio", i, audios.path, 0, 0)>>
                    ELSE <<>>
    IN  ConcatRange(F, 0, Len(arr) - 1)

CheckAudioFiles(self, arr, existing) ==
    IF ~HasAudio(arr)
    THEN AddWarnings(self, <<Msg("no_audio", NoFrame, "", 0, 0)>>)
    ELSE IF Len(MissingAudios(arr, existing)) > 0
    THEN AddErrors(self, <<Msg("missing_audios", NoFrame, "",
                               Len(MissingAudios(arr, existing)), 0)>>)
    ELSE self

---------------------------------------------------------------------------
(* _check_joint_continuity *)

\* max_jump_threshold = 0.5 rad, in quarter radians
MaxJumpThreshold == 2

\* range(1, min(len(data_array), 100))
JointWindow == 100

\* large_jumps[:5]
JumpDisplayCap == 5

ArmParts == <<"left_arm", "right_arm">>

Qpos(frame, part) == Get(frame["states"][part], "qpos", <<>>)

\* diff >= max_jump_threshold
IsLargeJumpInclusive(diff) == diff >= MaxJumpThreshold

\* diff > max_jump_threshold
IsLargeJump(diff) == diff > MaxJumpThreshold

LargeJumps(arr) ==
    LET F(i) ==
            LET prev_frame == At(arr, i - 1)
                curr_frame == At(arr, i)
                P(part) ==
                    IF part \in DOMAIN Get(prev_frame, "states", EmptyDict)
                       /\ part \in DOMAIN Get(curr_frame, "states", EmptyDict)
                    THEN LET prev_qpos == Qpos(prev_frame, part)
                             curr_qpos == Qpos(curr_frame, part)
                             J(j) == IF IsLargeJump(Abs(curr_qpos[j] - prev_qpos[j]))
                                     THEN <<Msg("large_jump", i, part, j - 1,
                                                Abs(curr_qpos[j] - prev_qpos[j]))>>
                                     ELSE <<>>
                         IN  IF Len(prev_qpos) = Len(curr_qpos)
                             THEN ConcatRange(J, 1, Len(curr_qpos))
                             ELSE <<>>
                    ELSE <<>>
            IN  ConcatOver(P, ArmParts)
    IN  ConcatRange(F, 1, Min(Len(arr), JointWindow) - 1)

CheckJointContinuity(self, arr) ==
    LET large_jumps == LargeJumps(arr)
    IN  IF Len(large_jumps) > 0
        THEN AddWarnings(self,
                 <<Msg("large_jumps", NoFrame, "", Len(large_jumps), 0)>>
                 \o Take(large_jumps, JumpDisplayCap))
        ELSE self

(* _check_data_continuity *)

\* data_array[i]['idx'] on a frame without idx: KeyError
ContinuityRaises(arr) ==
    Len(arr) >= 2 /\ \E i \in 0..(Len(arr) - 1) : "idx" \notin DOMAIN At(arr, i)

\* idx_gaps[:5]
GapDisplayCap == 5

IdxGaps(arr) ==
    LET F(i) == IF At(arr, i)["idx"] # At(arr, i - 1)["idx"] + 1
                THEN <<Msg("idx_gap", i - 1, "", At(arr, i - 1)["idx"], At(arr, i)["idx"])>>
                ELSE <<>>
    IN  ConcatRange(F, 1, Len(arr) - 1)

\* defined where ContinuityRaises(arr) is false
CheckDataContinuity(self, arr) ==
    IF Len(arr) < 2
    THEN AddWarnings(self, <<Msg("too_few_frames", NoFrame, "", 0, 0)>>)
    ELSE LET idx_gaps == IdxGaps(arr)
             s1 == IF Len(idx_gaps) > 0
                   THEN AddWarnings(self,
                            <<Msg("idx_gaps", NoFrame, "", Len(idx_gaps), 0)>>
                            \o Take(idx_gaps, GapDisplayCap))
                   ELSE self
         IN  CheckJointContinuity(s1, arr)

(* _check_value_ranges *)

\* abs(q) > 10, in quarter radians
JointRangeLimit == 40

\* data_array[:100]
RangeWindow == 100

\* joint_range_errors[:5]
RangeDisplayCap == 5

JointRangeErrors(arr) ==
    LET F(i) ==
            LET frame == At(arr, i)
                P(part) ==
                    IF part \in DOMAIN Get(frame, "states", EmptyDict)
                    THEN LET qpos == Qpos(frame, part)
                             J(j) == IF Abs(qpos[j]) > JointRangeLimit
                                     THEN <<Msg("range_error", i, part, j - 1, qpos[j])>>
                                     ELSE <<>>
                         IN  ConcatRange(J, 1, Len(qpos))
                    ELSE <<>>
            IN  ConcatOver(P, ArmParts)
    IN  ConcatRange(F, 0, Min(Len(arr), RangeWindow) - 1)

CheckValueRanges(self, arr) ==
    LET joint_range_errors == JointRangeErrors(arr)
    IN  IF Len(joint_range_errors) > 0
        THEN AddWarnings(self,
                 <<Msg("range_errors", NoFrame, "", Len(joint_range_errors), 0)>>
                 \o Take(joint_range_errors, RangeDisplayCap))
        ELSE self

---------------------------------------------------------------------------
(* _check_sub_index *)

MinSegmentLength == 10

\* if len(missing_sub_index) <= 10
SubIndexDisplayCap == 10

\* missing_sub_index[:5]
SubIndexDisplayHead == 5

\* non_monotonic[:5]
RegressionDisplayCap == 5

\* the frames without sub_index, in order
MissingSubIndex(arr) ==
    LET F(i) == IF "sub_index" \notin DOMAIN At(arr, i) THEN <<i>> ELSE <<>>
    IN  ConcatRange(F, 0, Len(arr) - 1)

\* sub_indices when no frame lacks the field
SubIndices(arr) == [i \in 1..Len(arr) |-> arr[i]["sub_index"]]

MissingSubIndexErrors(missing) ==
    LET Item(idx) == <<Msg("missing_sub_index", idx, "", 0, 0)>>
    IN  <<Msg("missing_sub_index_count", NoFrame, "", Len(missing), 0)>>
        \o (IF Len(missing) <= SubIndexDisplayCap
            THEN ConcatOver(Item, missing)
            ELSE ConcatOver(Item, Take(missing, SubIndexDisplayHead))
                 \o <<Msg("more_missing_sub_index", NoFrame, "",
                          Len(missing) - SubIndexDisplayHead, 0)>>)

\* Counter(sub_indices)
Distribution(sub_indices) ==
    [v \in {sub_indices[i] : i \in 1..Len(sub_indices)} |->
        Cardinality({i \in 1..Len(sub_indices) : sub_indices[i] = v})]

Transitions(sub_indices) ==
    LET F(i) == IF At(sub_indices, i) # At(sub_indices, i - 1)
                THEN <<[from_idx |-> i - 1, to_idx |-> i,
                        from_sub |-> At(sub_indices, i - 1),
                        to_sub |-> At(sub_indices, i)]>>
                ELSE <<>>
    IN  ConcatRange(F, 1, Len(sub_indices) - 1)

RECURSIVE SortedList(_)
\* sorted(set)
SortedList(S) ==
    IF S = {} THEN <<>>
    ELSE LET m == CHOOSE x \in S : \A y \in S : x <= y
         IN  <<m>> \o SortedList(S \ {m})

UniqueSubIndices(sub_indices) ==
    SortedList({sub_indices[i] : i \in 1..Len(sub_indices)})

\* list(range(n))
RangeList(n) == [i \in 1..n |-> i - 1]

NotContiguous(sub_indices) ==
    UniqueSubIndices(sub_indices) # RangeList(Len(UniqueSubIndices(sub_indices)))

\* every change of label taken for a regression
NonMonotonicAnyChange(sub_indices) ==
    LET F(i) == IF At(sub_indices, i) # At(sub_indices, i - 1)
                THEN <<Msg("non_monotonic_item", i - 1, "",
                           At(sub_indices, i - 1), At(sub_indices, i))>>
                ELSE <<>>
    IN  ConcatRange(F, 1, Len(sub_indices) - 1)

NonMonotonic(sub_indices) ==
    LET F(i) == IF At(sub_indices, i) < At(sub_indices, i - 1)
                THEN <<Msg("non_monotonic_item", i - 1, "",
                           At(sub_indices, i - 1), At(sub_indices, i))>>
                ELSE <<>>
    IN  ConcatRange(F, 1, Len(sub_indices) - 1)

Segment(sub, start, end, length) ==
    [sub_index |-> sub, start |-> start, end |-> end, length |-> length]

RECURSIVE SegmentsFrom(_, _, _, _, _)
\* the loop over i in range(1, len(sub_indices)), then the last segment
SegmentsFrom(sub_indices, i, current_sub, segment_start, segments) ==
    IF i > Len(sub_indices) - 1
    THEN Append(segments,
                Segment(current_sub, segment_start, Len(sub_indices) - 1,
                        Len(sub_indices) - segment_start))
    ELSE IF At(sub_indices, i) # current_sub
    THEN SegmentsFrom(sub_indices, i + 1, At(sub_indices, i), i,
                      Append(segments,
                             Segment(current_sub, segment_start, i - 1,
                                     i - segment_start)))
    ELSE SegmentsFrom(sub_indices, i + 1, current_sub, segment_start, segments)

\* the segment loop without the append of the last segment after it
SegmentsWithoutLast(sub_indices) ==
    LET all == SegmentsFrom(sub_indices, 1, At(sub_indices, 0), 0, <<>>)
    IN  SubSeq(all, 1, Len(all) - 1)

Segments(sub_indices) ==
    SegmentsFrom(sub_indices, 1, At(sub_indices, 0), 0, <<>>)

\* s['length'] <= min_segment_length
IsShortInclusive(seg) == seg.length <= MinSegmentLength

IsShort(seg) == seg.length < MinSegmentLength

ShortSegments(segments) ==
    LET F(seg) == IF IsShort(seg) THEN <<seg>> ELSE <<>>
    IN  ConcatOver(F, segments)

ContiguityWarnings(sub_indices) ==
    IF NotContiguous(sub_indices)
    THEN <<Msg("sub_index_not_contiguous", NoFrame, "",
               Len(UniqueSubIndices(sub_indices)), 0)>>
    ELSE <<>>

MonotonicWarnings(sub_indices) ==
    LET non_monotonic == NonMonotonic(sub_indices)
    IN  IF Len(non_monotonic) > 0
        THEN <<Msg("non_monotonic", NoFrame, "", Len(non_monotonic), 0)>>
             \o Take(non_monotonic, RegressionDisplayCap)
        ELSE <<>>

ShortSegmentWarnings(sub_indices) ==
    LET short_segments == ShortSegments(Segments(sub_indices))
        Item(seg) == <<Msg("short_segment", NoFrame, "", seg.sub_index, seg.length)>>
    IN  IF Len(short_segments) > 0
        THEN <<Msg("short_segments", NoFrame, "", Len(short_segments), 0)>>
             \o ConcatOver(Item, short_segments)
        ELSE <<>>

\* the part of _check_sub_index after the missing-field return
AnalyseSubIndex(self, sub_indices) ==
    LET s1 == SetStat(self, "sub_index_distribution", Distribution(sub_indices))
        s2 == SetStat(s1, "sub_index_count", Cardinality(DOMAIN Distribution(sub_indices)))
        s3 == SetStat(s2, "sub_index_transitions", Len(Transitions(sub_indices)))
        s4 == AddWarnings(s3, ContiguityWarnings(sub_indices))
        s5 == AddWarnings(s4, MonotonicWarnings(sub_indices))
        s6 == SetStat(s5, "sub_index_segments", Segments(sub_indices))
    IN  AddWarnings(s6, ShortSegmentWarnings(sub_indices))

\* the labels of the frames that carry sub_index, in frame order
PresentLabels(arr) ==
    LET F(i) == IF "sub_index" \in DOMAIN At(arr, i)
                THEN <<At(arr, i)["sub_index"]>> ELSE <<>>
    IN  ConcatRange(F, 0, Len(arr) - 1)

\* _check_sub_index without the return after the missing-field errors: the
\* segmentation goes on over the frames that are labelled
CheckSubIndexNoReturn(self, arr) ==
    IF Len(arr) = 0 THEN self
    ELSE LET s1 == IF Len(MissingSubIndex(arr)) > 0
                   THEN AddErrors(self, MissingSubIndexErrors(MissingSubIndex(arr)))
                   ELSE self
         IN  IF Len(PresentLabels(arr)) = 0 THEN s1
             ELSE AnalyseSubIndex(s1, PresentLabels(arr))

CheckSubIndex(self, arr) ==
    IF Len(arr) = 0 THEN self
    ELSE IF Len(MissingSubIndex(arr)) > 0
    THEN AddErrors(self, MissingSubIndexErrors(MissingSubIndex(arr)))
    ELSE AnalyseSubIndex(self, SubIndices(arr))

---------------------------------------------------------------------------
(* _get_report *)

GetReport(self) ==
    [success |-> Len(self.errors) = 0,
     errors |-> self.errors,
     warnings |-> self.warnings,
     stats |-> self.stats]

\* check_all's last line: return len(self.errors) == 0, self._get_report()
FinalReturn(self) == [success |-> Len(self.errors) = 0, report |-> GetReport(self)]

\* check_all's early returns: return False, self._get_report()
EarlyReturn(self) == [success |-> FALSE, report |-> GetReport(self)]

---------------------------------------------------------------------------
(* The records and files check_all is run on *)

MaxFrames == 2

MaxRuns == 2

Restrict(d, K) == [k \in (K \cap DOMAIN d) |-> d[k]]

Without(d, k) == Restrict(d, DOMAIN d \ {k})

With(d, k, v) == (k :> v) @@ d

MediaPaths == {"colors/c.jpg", "depths/d.png", "audios/a.wav"}

GoodPart == [qpos |-> <<0>>]

BaseFrame(i) ==
    [idx |-> i,
     colors |-> << <<"color_0", "colors/c.jpg">> >>,
     depths |-> <<>>,
     states |-> [left_arm |-> GoodPart],
     actions |-> [left_arm |-> GoodPart],
     sub_index |-> 0]

\* the frames a record may hold at position i: a sound frame and its variants
FramesAt(i) ==
    {BaseFrame(i), Without(BaseFrame(i), "sub_index")}
    \cup {Without(BaseFrame(i), RequiredFrameKeys[k]) : k \in 1..Len(RequiredFrameKeys)}
    \cup {With(BaseFrame(i), "idx", i + 1),
          With(BaseFrame(i), "sub_index", 1),
          With(BaseFrame(i), "states", [left_arm |-> EmptyDict]),
          With(BaseFrame(i), "states", [left_arm |-> [qpos |-> <<3>>]]),
          With(BaseFrame(i), "actions", [left_arm |-> GoodPart, body |-> EmptyDict]),
          With(BaseFrame(i), "depths", << <<"depth_0", "depths/d.png">> >>),
          With(BaseFrame(i), "audios", [type |-> "str", path |-> "audios/a.wav"]),
          With(BaseFrame(i), "audios", [type |-> "list", path |-> "audios/a.wav"])}

RECURSIVE ArraysOfLen(_)
ArraysOfLen(n) ==
    IF n = 0 THEN {<<>>}
    ELSE {Append(a, f) : a \in ArraysOfLen(n - 1), f \in FramesAt(n - 1)}

Arrays == UNION {ArraysOfLen(n) : n \in 0..MaxFrames}

FullInfo ==
    [version |-> "1.0", date |-> "2025", author |-> "unitree",
     image |-> [width |-> 640, height |-> 480, fps |-> 30],
     depth |-> [width |-> 640, height |-> 480, fps |-> 30],
     joint_names |-> [left_arm |-> <<"j0", "j1">>, right_arm |-> <<"j0", "j1">>]]

Infos ==
    {FullInfo, Without(FullInfo, "version"), Without(FullInfo, "joint_names"),
     With(FullInfo, "image", [width |-> 640, height |-> 480]),
     With(FullInfo, "image", [width |-> 0, height |-> 480, fps |-> 30]),
     EmptyDict}

FullText == [goal |-> "open the door", desc |-> "d", steps |-> "s"]

Texts == {FullText, With(FullText, "goal", ""), EmptyDict}

JsonObject(obj) == [type |-> "object", obj |-> obj]

\* a JSON array that holds none of the strings info, text, data
JsonArray == [type |-> "array", obj |-> EmptyDict]

Objects ==
    {Restrict([info |-> i, text |-> t, data |-> a], K) :
        i \in Infos, t \in Texts, a \in ArraysOfLen(0) \cup ArraysOfLen(1),
        K \in SUBSET {"info", "text", "data"}}
    \cup {[info |-> FullInfo, text |-> FullText, data |-> a] : a \in Arrays}

File(kind, json) == [kind |-> kind, size |-> 1, json |-> json]

RecordFiles ==
    {File(k, JsonNull) : k \in {"missing", "not_file", "unreadable", "bad_json"}}
    \cup {File("json", JsonNull), File("json", JsonArray)}
    \cup {File("json", JsonObject(o)) : o \in Objects}

NoData == [type |-> "unset", obj |-> EmptyDict]

---------------------------------------------------------------------------
(* check_all, one action per numbered step *)

Me == Self(errors, warnings, stats)

SetSelf(self) ==
    /\ errors' = self.errors
    /\ warnings' = self.warnings
    /\ stats' = self.stats

Goto(label) == pc' = label /\ returned' = <<>>

Return(value) == pc' = "done" /\ returned' = <<value>>

Called(method) == calls' = Append(calls, method)

inputVars == <<record_file, files, run, prev, locals>>

\* 1. if not self._check_file_exists(): return False, self._get_report()
FileExistsStep ==
    /\ pc = "file_exists"
    /\ LET r == CheckFileExists(Me, record_file)
       IN  /\ SetSelf(r.self)
           /\ IF r.ok THEN Goto("load_json") ELSE Return(EarlyReturn(r.self))
    /\ Called("_check_file_exists")
    /\ UNCHANGED <<data, data_array, inputVars, dirVars>>

\* 2. data = self._load_json(); if data is None: return False, self._get_report()
LoadJsonStep ==
    /\ pc = "load_json"
    /\ LET r == LoadJson(Me, record_file)
       IN  /\ SetSelf(r.self)
           /\ data' = r.data
           /\ IF r.data.type = "null"
              THEN Return(EarlyReturn(r.self)) ELSE Goto("structure")
    /\ Called("_load_json")
    /\ UNCHANGED <<data_array, inputVars, dirVars>>

\* 3. self._check_data_structure(data)
StructureStep ==
    /\ pc = "structure"
    /\ SetSelf(CheckDataStructure(Me, data))
    /\ Goto("info")
    /\ Called("_check_data_structure")
    /\ UNCHANGED <<data, data_array, inputVars, dirVars>>

\* 4. self._check_info_section(data.get('info', {})); a list has no .get
InfoStep ==
    /\ pc = "info"
    /\ IF data.type = "object"
       THEN /\ SetSelf(CheckInfoSection(Me, Get(data.obj, "info", EmptyDict)))
            /\ Goto("text")
            /\ Called("_check_info_section")
       ELSE /\ Goto("raised")
            /\ UNCHANGED <<errors, warnings, stats, calls>>
    /\ UNCHANGED <<data, data_array, inputVars, dirVars>>

\* 5. self._check_text_section(data.get('text', {}))
TextStep ==
    /\ pc = "text"
    /\ SetSelf(CheckTextSection(Me, Get(data.obj, "text", EmptyDict)))
    /\ Goto("data_array")
    /\ Called("_check_text_section")
    /\ UNCHANGED <<data, data_array, inputVars, dirVars>>

\* 6. data_array = data.get('data', []); self._check_data_array(data_array)
DataArrayStep ==
    /\ pc = "data_array"
    /\ data_array' = Get(data.obj, "data", <<>>)
    /\ SetSelf(CheckDataArray(Me, data_array'))
    /\ Goto("images")
    /\ Called("_check_data_array")
    /\ UNCHANGED <<data, inputVars, dirVars>>

\* 7. self._check_image_files(data_array)
ImageStep ==
    /\ pc = "images"
    /\ SetSelf(CheckImageFiles(Me, data_array, files))
    /\ Goto("depths")
    /\ Called("_check_image_files")
    /\ UNCHANGED <<data, data_array, inputVars, dirVars>>

\* 8. self._check_depth_files(data_array)
DepthStep ==
    /\ pc = "depths"
    /\ SetSelf(CheckDepthFiles(Me, data_array, files))
    /\ Goto("audios")
    /\ Called("_check_depth_files")
    /\ UNCHANGED <<data, data_array, inputVars, dirVars>>

\* 9. self._check_audio_files(data_array)
AudioStep ==
    /\ pc = "audios"
    /\ SetSelf(CheckAudioFiles(Me, data_array, files))
    /\ Goto("continuity")
    /\ Called("_check_audio_files")
    /\ UNCHANGED <<data, data_array, inputVars, dirVars>>

\* 10. self._check_data_continuity(data_array); KeyError leaves check_all
ContinuityStep ==
    /\ pc = "continuity"
    /\ IF ContinuityRaises(data_array)
       THEN /\ Goto("raised")
            /\ UNCHANGED <<errors, warnings, stats>>
       ELSE /\ SetSelf(CheckDataContinuity(Me, data_array))
            /\ Goto("ranges")
    /\ Called("_check_data_continuity")
    /\ UNCHANGED <<data, data_array, inputVars, dirVars>>

\* 11. self._check_value_ranges(data_array)
RangeStep ==
    /\ pc = "ranges"
    /\ SetSelf(CheckValueRanges(Me, data_array))
    /\ Goto("sub_index")
    /\ Called("_check_value_ranges")
    /\ UNCHANGED <<data, data_array, inputVars, dirVars>>

\* 12. self._check_sub_index(data_array); return len(self.errors) == 0, report
SubIndexStep ==
    /\ pc = "sub_index"
    /\ LET self == CheckSubIndex(Me, data_array)
       IN  SetSelf(self) /\ Return(FinalReturn(self))
    /\ Called("_check_sub_index")
    /\ UNCHANGED <<data, data_array, inputVars, dirVars>>

\* main() run once more on the same path: a new DataIntegrityChecker
Rerun ==
    /\ pc = "done"
    /\ run < MaxRuns
    /\ run' = run + 1
    /\ prev' = Append(prev, returned[1])
    /\ SetSelf(NewChecker(Me))
    /\ pc' = "file_exists"
    /\ data' = NoData
    /\ data_array' = <<>>
    /\ calls' = <<>>
    /\ returned' = <<>>
    /\ UNCHANGED <<record_file, files, locals, dirVars>>

NoDirectory == [kind |-> "missing", episodes |-> EmptyDict]

DirIdle ==
    /\ directory = NoDirectory
    /\ data_files = <<>>
    /\ results = <<>>
    /\ all_success = TRUE
    /\ dpc = "idle"
    /\ dir_returned = <<>>

CheckerInit ==
    /\ pc = "file_exists"
    /\ data = NoData
    /\ data_array = <<>>
    /\ errors = <<>>
    /\ warnings = <<>>
    /\ stats = EmptyDict
    /\ calls = <<>>
    /\ returned = <<>>

Init ==
    /\ record_file \in RecordFiles
    /\ files \in SUBSET MediaPaths
    /\ CheckerInit
    /\ run = 1
    /\ prev = <<>>
    /\ locals = EmptyDict
    /\ DirIdle

Next ==
    \/ FileExistsStep
    \/ LoadJsonStep
    \/ StructureStep
    \/ InfoStep
    \/ TextStep
    \/ DataArrayStep
    \/ ImageStep
    \/ DepthStep
    \/ AudioStep
    \/ ContinuityStep
    \/ RangeStep
    \/ SubIndexStep
    \/ Rerun

Spec == Init /\ [][Next]_vars

---------------------------------------------------------------------------
(* check_all as one call, for callers that run it to its end *)

CheckAll(self0, file, existing) ==
    LET fe == CheckFileExists(self0, file)
        lj == LoadJson(fe.self, file)
        s3 == CheckDataStructure(lj.self, lj.data)
        s4 == CheckInfoSection(s3, Get(lj.data.obj, "info", EmptyDict))
        s5 == CheckTextSection(s4, Get(lj.data.obj, "text", EmptyDict))
        arr == Get(lj.data.obj, "data", <<>>)
        s6 == CheckDataArray(s5, arr)
        s7 == CheckImageFiles(s6, arr, existing)
        s8 == CheckDepthFiles(s7, arr, existing)
        s9 == CheckAudioFiles(s8, arr, existing)
        s10 == CheckDataContinuity(s9, arr)
        s11 == CheckValueRanges(s10, arr)
        s12 == CheckSubIndex(s11, arr)
    IN  IF ~fe.ok
        THEN [raised |-> FALSE, self |-> fe.self, ret |-> <<EarlyReturn(fe.self)>>]
        ELSE IF lj.data.type = "null"
        THEN [raised |-> FALSE, self |-> lj.self, ret |-> <<EarlyReturn(lj.self)>>]
        ELSE IF lj.data.type # "object"
        THEN [raised |-> TRUE, self |-> s3, ret |-> <<>>]
        ELSE IF ContinuityRaises(arr)
        THEN [raised |-> TRUE, self |-> s9, ret |-> <<>>]
        ELSE [raised |-> FALSE, self |-> s12, ret |-> <<FinalReturn(s12)>>]

---------------------------------------------------------------------------
(* check_directory *)

MaxEpisodes == 3

Episode(file, existing) == [file |-> file, files |-> existing]

FullObject(arr) == JsonObject([info |-> FullInfo, text |-> FullText, data |-> arr])

AllMedia == MediaPaths

\* the episodes a directory may hold: sound, failing, unloadable, and corrupt
EpisodeChoices ==
    {Episode(File("json", FullObject(<<BaseFrame(0), BaseFrame(1)>>)), AllMedia),
     Episode(File("json", FullObject(<<BaseFrame(0), BaseFrame(1)>>)), {}),
     Episode(File("json", FullObject(<<>>)), AllMedia),
     Episode(File("bad_json", JsonNull), AllMedia),
     Episode(File("json", JsonNull), AllMedia),
     Episode(File("json", JsonArray), AllMedia),
     Episode(File("json", FullObject(<<Without(BaseFrame(0), "idx"), BaseFrame(1)>>)),
             AllMedia)}

\* a directory: missing, or episode sub-directories (named by number) with a data.json
Directories ==
    {NoDirectory}
    \cup {[kind |-> "dir", episodes |-> e] :
            e \in UNION {[names -> EpisodeChoices] : names \in SUBSET (1..MaxEpisodes)}}

\* sorted(dir_path.glob("*/data.json"))
SortedDataFiles(dir) == SortedList(DOMAIN dir.episodes)

\* the dict appended to results
ResultOf(name, ret) ==
    [episode |-> name,
     success |-> ret.success,
     errors |-> Len(ret.report.errors),
     warnings |-> Len(ret.report.warnings),
     stats |-> ret.report.stats]

dirAside == <<record_file, files, pc, data, data_array, calls, returned, run, prev, locals>>

\* up to "results = []; all_success = True", with the two early returns
DirStart ==
    /\ dpc = "start"
    /\ IF directory.kind = "missing"
       THEN /\ dpc' = "done" /\ dir_returned' = <<FALSE>>
            /\ UNCHANGED data_files
       ELSE /\ data_files' = SortedDataFiles(directory)
            /\ IF Len(data_files') = 0
               THEN dpc' = "done" /\ dir_returned' = <<FALSE>>
               ELSE dpc' = "loop" /\ dir_returned' = <<>>
    /\ UNCHANGED <<directory, results, all_success, errors, warnings, stats, dirAside>>

\* one pass of "for data_file in data_files"; an exception in check_all
\* leaves check_directory
DirEpisode ==
    /\ dpc = "loop"
    /\ Len(results) < Len(data_files)
    /\ LET name == data_files[Len(results) + 1]
           ep == directory.episodes[name]
           r == CheckAll(NewChecker(Me), ep.file, ep.files)
       IN  /\ SetSelf(r.self)
           /\ IF r.raised
              THEN /\ dpc' = "raised"
                   /\ UNCHANGED <<results, all_success>>
              ELSE /\ results' = Append(results, ResultOf(name, r.ret[1]))
                   /\ all_success' = IF ~r.ret[1].success THEN FALSE ELSE all_success
                   /\ dpc' = "loop"
    /\ UNCHANGED <<directory, data_files, dir_returned, dirAside>>

\* after the loop: the summary, then return all_success
DirFinish ==
    /\ dpc = "loop"
    /\ Len(results) = Len(data_files)
    /\ dpc' = "done"
    /\ dir_returned' = <<all_success>>
    /\ UNCHANGED <<directory, data_files, results, all_success,
                   errors, warnings, stats, dirAside>>

CheckerIdle ==
    /\ record_file = File("missing", JsonNull)
    /\ files = {}
    /\ CheckerInit
    /\ run = 1
    /\ prev = <<>>

InitDir ==
    /\ directory \in Directories
    /\ data_files = <<>>
    /\ results = <<>>
    /\ all_success = TRUE
    /\ dpc = "start"
    /\ dir_returned = <<>>
    /\ CheckerIdle
    /\ locals = EmptyDict

NextDir == DirStart \/ DirEpisode \/ DirFinish

SpecDir == InitDir /\ [][NextDir]_vars

---------------------------------------------------------------------------
(* One method called on a new checker: the records it is given *)

unitAside == <<record_file, files, data, data_array, calls, returned, run, prev, dirVars>>

UnitInit ==
    /\ record_file = File("missing", JsonNull)
    /\ data = NoData
    /\ errors = <<>>
    /\ warnings = <<>>
    /\ stats = EmptyDict
    /\ calls = <<>>
    /\ returned = <<>>
    /\ run = 1
    /\ prev = <<>>
    /\ locals = EmptyDict
    /\ DirIdle

(* _check_image_files alone *)

MaxImageFrames == 6

ImagePaths == {"colors/a.jpg", "colors/b.jpg", "colors/c.jpg"}

ColorChoices ==
    {<< <<"color_0", "colors/a.jpg">> >>,
     << <<"color_1", "colors/a.jpg">>, <<"color_0", "colors/b.jpg">> >>,
     << <<"color_0", "colors/a.jpg">>, <<"color_1", "colors/b.jpg">>,
        <<"color_2", "colors/c.jpg">> >>}

ImageFramesAt(i) ==
    {Without(BaseFrame(i), "colors")}
    \cup {With(BaseFrame(i), "colors", c) : c \in ColorChoices}

RECURSIVE ImageArraysOfLen(_)
ImageArraysOfLen(n) ==
    IF n = 0 THEN {<<>>}
    ELSE {Append(a, f) : a \in ImageArraysOfLen(n - 1), f \in ImageFramesAt(n - 1)}

InitImages ==
    /\ data_array \in UNION {ImageArraysOfLen(n) : n \in 0..MaxImageFrames}
    /\ files \in SUBSET ImagePaths
    /\ pc = "call_images"
    /\ UnitInit

ImageCall ==
    /\ pc = "call_images"
    /\ SetSelf(CheckImageFiles(Me, data_array, files))
    /\ locals' = [missing_images |-> MissingImages(data_array, files),
                  camera_counts |-> CameraCounts(data_array)]
    /\ pc' = "done"
    /\ UNCHANGED unitAside

SpecImages == InitImages /\ [][ImageCall]_vars

(* _check_sub_index alone *)

MaxSubLen == 9

Labels == {0, 1, 2}

\* as many frames as `labels` has entries, frame i labelled labels[i]
LabelledFrames(labels) ==
    [i \in 1..Len(labels) |-> With(BaseFrame(i - 1), "sub_index", labels[i])]

RECURSIVE Repeat(_, _)
Repeat(v, n) == IF n = 0 THEN <<>> ELSE <<v>> \o Repeat(v, n - 1)

RunLengths == {1, 9, 10, 11}

\* label sequences made of at most three runs, long enough to pass the
\* minimum segment length
RunSequences ==
    {Repeat(a, la) \o Repeat(b, lb) \o Repeat(c, lc) :
        a \in Labels, b \in Labels, c \in Labels,
        la \in RunLengths, lb \in RunLengths \cup {0}, lc \in RunLengths \cup {0}}

LabelSequences ==
    UNION {[1..n -> Labels] : n \in 1..MaxSubLen} \cup RunSequences

InitSubIndex ==
    /\ data_array \in {LabelledFrames(l) : l \in LabelSequences}
    /\ files = {}
    /\ pc = "call_sub_index"
    /\ UnitInit

SubIndexCall ==
    /\ pc = "call_sub_index"
    /\ SetSelf(CheckSubIndex(Me, data_array))
    /\ locals' = [sub_indices |-> SubIndices(data_array),
                  transitions |-> Transitions(SubIndices(data_array)),
                  non_monotonic |-> NonMonotonic(SubIndices(data_array)),
                  segments |-> Segments(SubIndices(data_array)),
                  short_segments |-> ShortSegments(Segments(SubIndices(data_array)))]
    /\ pc' = "done"
    /\ UNCHANGED unitAside

SpecSubIndex == InitSubIndex /\ [][SubIndexCall]_vars

(* _check_sub_index alone, on frames some of which lack sub_index *)

MaxGapLen == 5

LongGapLen == 12

\* frame i carries labels[i] when i is in present and no sub_index otherwise
GapFrames(labels, present) ==
    [i \in 1..Len(labels) |->
        IF i \in present
        THEN With(BaseFrame(i - 1), "sub_index", labels[i])
        ELSE Without(BaseFrame(i - 1), "sub_index")]

GapArrays ==
    {GapFrames(l, P) : l \in UNION {[1..n -> {0, 1}] : n \in 1..MaxGapLen},
                       P \in SUBSET (1..MaxGapLen)}
    \cup {GapFrames(Repeat(0, LongGapLen), P) :
              P \in {{}, {1}, {LongGapLen}, {1, LongGapLen}}}

InitSubIndexGaps ==
    /\ data_array \in GapArrays
    /\ files = {}
    /\ pc = "call_sub_index_gaps"
    /\ UnitInit

SubIndexGapsCall ==
    /\ pc = "call_sub_index_gaps"
    /\ SetSelf(CheckSubIndex(Me, data_array))
    /\ locals' = [missing_sub_index |-> MissingSubIndex(data_array)]
    /\ pc' = "done"
    /\ UNCHANGED unitAside

SpecSubIndexGaps == InitSubIndexGaps /\ [][SubIndexGapsCall]_vars

(* _check_depth_files, then _check_audio_files, alone *)

MaxMediaFrames == 2

StreamPaths == {"depths/d.png", "depths/e.png", "audios/a.wav"}

DepthChoices ==
    {<<>>,
     << <<"depth_0", "depths/d.png">> >>,
     << <<"depth_0", "depths/d.png">>, <<"depth_1", "depths/e.png">> >>}

AudioChoices ==
    {NoAudio,
     [type |-> "str", path |-> ""],
     [type |-> "str", path |-> "audios/a.wav"],
     [type |-> "list", path |-> "audios/a.wav"]}

\* a frame with or without depths, with or without audios
MediaFramesAt(i) ==
    LET D == {Without(BaseFrame(i), "depths")}
             \cup {With(BaseFrame(i), "depths", d) : d \in DepthChoices}
    IN  D \cup {With(f, "audios", a) : f \in D, a \in AudioChoices}

RECURSIVE MediaArraysOfLen(_)
MediaArraysOfLen(n) ==
    IF n = 0 THEN {<<>>}
    ELSE {Append(a, f) : a \in MediaArraysOfLen(n - 1), f \in MediaFramesAt(n - 1)}

InitMedia ==
    /\ data_array \in UNION {MediaArraysOfLen(n) : n \in 0..MaxMediaFrames}
    /\ files \in SUBSET StreamPaths
    /\ pc = "call_depths"
    /\ UnitInit

DepthCall ==
    /\ pc = "call_depths"
    /\ SetSelf(CheckDepthFiles(Me, data_array, files))
    /\ locals' = [has_depth |-> HasDepth(data_array),
                  missing_depths |-> MissingDepths(data_array, files)]
    /\ pc' = "call_audios"
    /\ UNCHANGED unitAside

AudioCall ==
    /\ pc = "call_audios"
    /\ SetSelf(CheckAudioFiles(Me, data_array, files))
    /\ locals' = [has_audio |-> HasAudio(data_array),
                  missing_audios |-> MissingAudios(data_array, files)] @@ locals
    /\ pc' = "done"
    /\ UNCHANGED unitAside

NextMedia == DepthCall \/ AudioCall

SpecMedia == InitMedia /\ [][NextMedia]_vars

(* _check_joint_continuity alone *)

MaxJointFrames == 2

MaxLongFrames == 151

\* qpos vectors, in quarter radians: 0.0, 0.5, 0.75
QposChoices == {<<>>, <<0>>, <<2>>, <<3>>, <<0, 3>>, <<3, 0>>}

PartChoices == {EmptyDict} \cup {[qpos |-> q] : q \in QposChoices}

StatesChoices ==
    {EmptyDict}
    \cup {[left_arm |-> l] : l \in PartChoices}
    \cup {[right_arm |-> r] : r \in PartChoices}
    \cup {[left_arm |-> l, right_arm |-> r] : l \in PartChoices, r \in PartChoices}

JointFramesAt(i) ==
    {Without(BaseFrame(i), "states")}
    \cup {With(BaseFrame(i), "states", st) : st \in StatesChoices}

RECURSIVE JointArraysOfLen(_)
JointArraysOfLen(n) ==
    IF n = 0 THEN {<<>>}
    ELSE {Append(a, f) : a \in JointArraysOfLen(n - 1), f \in JointFramesAt(n - 1)}

\* long recordings: both arms at rest, moving by 0.75 rad at the frames in `jumps`
JumpFrames == {1, 2, 3, 98, 99, 100, 150}

LongLengths == {99, 100, 101, MaxLongFrames}

LongArray(n, jumps) ==
    [k \in 1..n |->
        LET v == 3 * (Cardinality({j \in jumps : j <= k - 1}) % 2)
        IN  With(BaseFrame(k - 1), "states",
                 [left_arm |-> [qpos |-> <<v>>], right_arm |-> [qpos |-> <<v>>]])]

LongArrays == {LongArray(n, jumps) : n \in LongLengths, jumps \in SUBSET JumpFrames}

InitJoints ==
    /\ data_array \in UNION {JointArraysOfLen(n) : n \in 0..MaxJointFrames} \cup LongArrays
    /\ files = {}
    /\ pc = "call_joint_continuity"
    /\ UnitInit

JointCall ==
    /\ pc = "call_joint_continuity"
    /\ SetSelf(CheckJointContinuity(Me, data_array))
    /\ locals' = [large_jumps |-> LargeJumps(data_array)]
    /\ pc' = "done"
    /\ UNCHANGED unitAside

SpecJoints == InitJoints /\ [][JointCall]_vars

---------------------------------------------------------------------------
(* What the claims speak of, stated on the record itself *)

Finished == pc \in {"done", "raised"}

LoadedObject == data.type = "object"

TheFrames == Get(data.obj, "data", <<>>)

FrameSet == {TheFrames[i] : i \in 1..Len(TheFrames)}

ToSet(list) == {list[i] : i \in 1..Len(list)}

TopLevelPresent == \A k \in ToSet(RequiredKeys) : k \in DOMAIN data.obj

InfoPresent ==
    \A k \in ToSet(RequiredInfoFields) : k \in DOMAIN Get(data.obj, "info", EmptyDict)

QposPresent(f) ==
    \A sec \in {"states", "actions"} :
        sec \in DOMAIN f => \A part \in DOMAIN f[sec] : "qpos" \in DOMAIN f[sec][part]

FrameFieldsPresent(f) ==
    (\A k \in ToSet(RequiredFrameKeys) : k \in DOMAIN f) /\ QposPresent(f)

RequiredFieldsPresent ==
    TopLevelPresent /\ InfoPresent /\ \A f \in FrameSet : FrameFieldsPresent(f)

IdxEqualsPosition ==
    \A i \in 1..Len(TheFrames) :
        "idx" \in DOMAIN TheFrames[i] /\ TheFrames[i]["idx"] = i - 1

PairPathsExist(f, key) ==
    key \in DOMAIN f => \A k \in 1..Len(f[key]) : f[key][k][2] \in files

\* every audio reference, of whatever JSON type
AudioPathExists(f) ==
    ("audios" \in DOMAIN f /\ f["audios"].path # "") => f["audios"].path \in files

\* the audio references that are strings
StrAudioPathExists(f) ==
    ("audios" \in DOMAIN f /\ f["audios"].type = "str" /\ f["audios"].path # "")
        => f["audios"].path \in files

MediaExist(f) == PairPathsExist(f, "colors") /\ PairPathsExist(f, "depths")

SubIndexUsed == \E f \in FrameSet : "sub_index" \in DOMAIN f

SubIndexOnAll == \A f \in FrameSet : "sub_index" \in DOMAIN f

---------------------------------------------------------------------------
(* C1: on every return path of check_all the returned flag and the report's *)
(* 'success' are both true exactly when self.errors is empty.               *)
C1_VerdictIsErrorsEmpty ==
    returned # <<>> =>
        /\ returned[1].success = (Len(errors) = 0)
        /\ returned[1].report.success = (Len(errors) = 0)

LoadFailure == record_file.kind \in {"missing", "not_file", "unreadable", "bad_json"}

LoadErrorKinds == {"file_missing", "not_a_file", "read_error", "json_decode_error"}

C3_LoadFailureShortCircuits ==
    LoadFailure =>
        /\ pc \in {"file_exists", "load_json", "done"}
        /\ ToSet(calls) \subseteq {"_check_file_exists", "_load_json"}
        /\ warnings = <<>>
        /\ pc = "done" =>
            /\ returned[1].success = FALSE
            /\ returned[1].report.success = FALSE
            /\ Len(returned[1].report.errors) = 1
            /\ returned[1].report.errors[1].kind \in LoadErrorKinds
            /\ returned[1].report.warnings = <<>>

C3_Witness ==
    pc = "done" /\ record_file.kind = "bad_json" /\ calls = <<"_check_file_exists", "_load_json">>

(* C4: for a record that loads, a malformed frame never stops the run:     *)
(* check_all runs every check to completion and returns a report, and the  *)
(* errors hold a finding for each missing required field of each frame.    *)
AllChecks ==
    <<"_check_file_exists", "_load_json", "_check_data_structure",
      "_check_info_section", "_check_text_section", "_check_data_array",
      "_check_image_files", "_check_depth_files", "_check_audio_files",
      "_check_data_continuity", "_check_value_ranges", "_check_sub_index">>

MissingFieldFindings ==
    \A i \in 1..Len(TheFrames) :
        /\ \A k \in ToSet(RequiredFrameKeys) :
              k \notin DOMAIN TheFrames[i] =>
                  \E e \in ToSet(errors) :
                      e.kind = "frame_missing_key" /\ e.frame = i - 1 /\ e.key = k
        /\ \A sec \in {"states", "actions"} :
              sec \in DOMAIN TheFrames[i] =>
                  \A part \in DOMAIN TheFrames[i][sec] :
                      "qpos" \notin DOMAIN TheFrames[i][sec][part] =>
                          \E e \in ToSet(errors) :
                              /\ e.kind = "missing_qpos" /\ e.frame = i - 1
                              /\ e.key = sec \o "." \o part

C4_MalformedFrameNeverStops ==
    LoadedObject =>
        /\ pc # "raised"
        /\ pc = "done" => (calls = AllChecks /\ MissingFieldFindings)

OwnVerdict(name) ==
    LET ep == directory.episodes[name]
        r == CheckAll(NewChecker(Me), ep.file, ep.files)
    IN  ~r.raised /\ r.ret[1].success

C10_BatchNeverAborts ==
    /\ dpc # "raised"
    /\ (dpc = "done" /\ Len(data_files) > 0) =>
          /\ Len(results) = Len(data_files)
          /\ \A k \in 1..Len(results) :
                /\ results[k].episode = data_files[k]
                /\ results[k].success = OwnVerdict(data_files[k])
          /\ dir_returned[1] = (\A k \in 1..Len(results) : results[k].success)

---------------------------------------------------------------------------
(* C5: _check_image_files *)

\* the (frame, entry) places of every colors reference; frames count from 1 here
MaxColors == 3

ColorEntries ==
    {p \in (1..Len(data_array)) \X (1..MaxColors) :
        /\ "colors" \in DOMAIN data_array[p[1]]
        /\ p[2] <= Len(data_array[p[1]]["colors"])}

EntryCamera(p) == data_array[p[1]]["colors"][p[2]][1]

EntryPath(p) == data_array[p[1]]["colors"][p[2]][2]

MissingEntries == {p \in ColorEntries : EntryPath(p) \notin files}

NumMissing == Cardinality(MissingEntries)

CamerasUsed == {EntryCamera(p) : p \in ColorEntries}

FramesWithCamera(c) ==
    Cardinality({i \in 1..Len(data_array) :
        \E p \in ColorEntries : p[1] = i /\ EntryCamera(p) = c})

CountsIncludeMissing ==
    /\ DOMAIN stats["camera_counts"] = CamerasUsed
    /\ \A c \in CamerasUsed : stats["camera_counts"][c] = FramesWithCamera(c)
    /\ ToSet(stats["cameras"]) = CamerasUsed

(* C5 as claimed: the image check adds exactly one error per colors path   *)
(* that does not exist (m missing paths: m errors), and each camera's      *)
(* count is the number of frames whose colors holds it, file or no file.   *)
C5_AsClaimed ==
    pc = "done" => (Len(errors) = NumMissing /\ CountsIncludeMissing)

(* C5 as amended: the missing list holds exactly one entry per colors path *)
(* that does not exist, tagged with its frame; for m = 0 no error is       *)
(* added, for 1 <= m <= 10 one summary error carrying m and then the m     *)
(* entries, for m > 10 the summary, the first 5 entries and one error      *)
(* carrying m - 5; each camera's count is the number of frames whose       *)
(* colors holds it, file or no file.                                       *)
C5_MissingImagesReported ==
    pc = "done" =>
        LET missing == locals["missing_images"]
            m == NumMissing
        IN  /\ Len(missing) = m
            /\ \A p \in MissingEntries :
                  Cardinality({k \in 1..Len(missing) :
                      /\ missing[k].frame = p[1] - 1
                      /\ missing[k].key = EntryPath(p)}) >= 1
            /\ \A k \in 1..(Len(missing) - 1) : missing[k].frame <= missing[k + 1].frame
            /\ m = 0 => errors = <<>>
            /\ (1 <= m /\ m <= 10) =>
                  errors = <<Msg("missing_images", NoFrame, "", m, 0)>> \o missing
            /\ m > 10 =>
                  errors = <<Msg("missing_images", NoFrame, "", m, 0)>>
                           \o SubSeq(missing, 1, 5)
                           \o <<Msg("more_missing_images", NoFrame, "", m - 5, 0)>>
            /\ CountsIncludeMissing

\* more than ten missing files, every one of them counted for its camera
C5_Witness ==
    /\ pc = "done" /\ NumMissing > 10 /\ files # {}
    /\ \E c \in CamerasUsed : stats["camera_counts"][c] = Len(data_array)

---------------------------------------------------------------------------
(* C6, C7: _check_sub_index on fully labelled frames *)

TheLabels == locals["sub_indices"]

NumLabels == Len(TheLabels)

\* Python positions i, 1 <= i < n, with sub_index[i] != sub_index[i-1]
ChangePositions == {i \in 1..(NumLabels - 1) : TheLabels[i + 1] # TheLabels[i]}

\* Python positions a..b form a maximal run of one label
MaximalRun(a, b) ==
    /\ a <= b
    /\ \A i \in a..b : TheLabels[i + 1] = TheLabels[a + 1]
    /\ (a = 0 \/ TheLabels[a] # TheLabels[a + 1])
    /\ (b = NumLabels - 1 \/ TheLabels[b + 2] # TheLabels[b + 1])

Runs == {r \in (0..(NumLabels - 1)) \X (0..(NumLabels - 1)) : MaximalRun(r[1], r[2])}

TransitionsAreChanges ==
    LET T == locals["transitions"]
    IN  /\ Len(T) = Cardinality(ChangePositions)
        /\ stats["sub_index_transitions"] = Cardinality(ChangePositions)
        /\ \A k \in 1..Len(T) :
              /\ T[k].to_idx \in ChangePositions
              /\ T[k].from_idx = T[k].to_idx - 1
              /\ T[k].from_sub = TheLabels[T[k].to_idx]
              /\ T[k].to_sub = TheLabels[T[k].to_idx + 1]
        /\ \A k \in 1..(Len(T) - 1) : T[k].to_idx < T[k + 1].to_idx

SegmentsAreRuns ==
    LET G == stats["sub_index_segments"]
    IN  /\ Len(G) = Cardinality(Runs)
        /\ \A k \in 1..Len(G) :
              /\ <<G[k].start, G[k].end>> \in Runs
              /\ G[k].sub_index = TheLabels[G[k].start + 1]
              /\ G[k].length = G[k].end - G[k].start + 1
        /\ \A k \in 1..(Len(G) - 1) : G[k].start < G[k + 1].start

ShortBelowTen ==
    LET G == stats["sub_index_segments"]
        short == {k \in 1..Len(G) : G[k].length < 10}
    IN  /\ Len(locals["short_segments"]) = Cardinality(short)
        /\ \A k \in 1..Len(G) : (G[k] \in ToSet(locals["short_segments"])) <=> k \in short
        /\ CountKind(warnings, "short_segment") = Cardinality(short)
        /\ \A k \in short :
              Msg("short_segment", NoFrame, "", G[k].sub_index, G[k].length)
                  \in ToSet(warnings)
        /\ CountKind(warnings, "short_segments") = (IF short = {} THEN 0 ELSE 1)

ExampleSegmented ==
    TheLabels = <<0, 0, 0, 1, 1, 2, 2, 2, 2>> =>
        LET T == locals["transitions"]
            G == stats["sub_index_segments"]
        IN  /\ Len(T) = 2
            /\ <<T[1].from_idx, T[1].to_idx>> = <<2, 3>>
            /\ <<T[2].from_idx, T[2].to_idx>> = <<4, 5>>
            /\ [k \in 1..Len(G) |-> G[k].length] = <<3, 2, 4>>
            /\ G[2] \in ToSet(locals["short_segments"])
            /\ Msg("short_segment", NoFrame, "", 1, 2) \in ToSet(warnings)

(* C6: with sub_index on every frame, the transitions are exactly the      *)
(* positions where the label changes, the segments are exactly the maximal *)
(* runs of one label with label, start, end and length, and a segment is   *)
(* flagged short exactly when its length is below 10; [0,0,0,1,1,2,2,2,2]  *)
(* gives 2 transitions (2->3, 4->5) and lengths [3,2,4], the length-2      *)
(* segment flagged.                                                        *)
C6_TransitionsAndSegments ==
    pc = "done" =>
        TransitionsAreChanges /\ SegmentsAreRuns /\ ShortBelowTen /\ ExampleSegmented

C6_Witness ==
    pc = "done" /\ TheLabels = <<0, 0, 0, 1, 1, 2, 2, 2, 2>>

\* Python positions i with sub_index[i] < sub_index[i-1]
Decreases == {i \in 1..(NumLabels - 1) : TheLabels[i + 1] < TheLabels[i]}

LabelSet == ToSet(TheLabels)

Dense == LabelSet = 0..(Cardinality(LabelSet) - 1)

NamesDecrease(w, i) ==
    /\ w.kind = "non_monotonic_item"
    /\ w.frame = i - 1
    /\ w.a = TheLabels[i] /\ w.b = TheLabels[i + 1]

(* C7 as claimed: exactly one regression warning per strict decrease,      *)
(* naming its frame pair, none for a non-decreasing sequence; the density  *)
(* warning only for a non-dense label set; for [0,1,0,1] the regression    *)
(* warning at frame 2 is the only warning of the sub_index analysis.       *)
C7_AsClaimed ==
    pc = "done" =>
        /\ \A i \in Decreases :
              Cardinality({k \in 1..Len(warnings) : NamesDecrease(warnings[k], i)}) = 1
        /\ CountKind(warnings, "non_monotonic_item") = Cardinality(Decreases)
        /\ CountKind(warnings, "sub_index_not_contiguous") > 0 => ~Dense
        /\ TheLabels = <<0, 1, 0, 1>> =>
              (Len(warnings) = 1 /\ NamesDecrease(warnings[1], 2))

(* C7 as amended: the regression list holds exactly one entry per strict   *)
(* decrease, naming its frame pair; with d decreases the warnings get      *)
(* nothing for d = 0 and otherwise one summary carrying d followed by the  *)
(* entries of the first min(d, 5) decreases; the density warning is added  *)
(* exactly when the sorted distinct labels differ from 0..k-1; [0,1,0,1]   *)
(* gets the regression summary and the entry for frames 1 -> 2, no density *)
(* warning, and the short-segment warnings of its four one-frame segments. *)
C7_RegressionWarnings ==
    pc = "done" =>
        LET d == Cardinality(Decreases)
            list == locals["non_monotonic"]
            shown == IF d < 5 THEN d ELSE 5
            at == {k \in 1..Len(warnings) : warnings[k].kind = "non_monotonic"}
        IN  /\ Len(list) = d
            /\ \A i \in Decreases :
                  Cardinality({k \in 1..d : NamesDecrease(list[k], i)}) = 1
            /\ \A k \in 1..(d - 1) : list[k].frame < list[k + 1].frame
            /\ CountKind(warnings, "non_monotonic") = (IF d = 0 THEN 0 ELSE 1)
            /\ CountKind(warnings, "non_monotonic_item") = shown
            /\ \A k \in at :
                  /\ warnings[k].a = d
                  /\ SubSeq(warnings, k + 1, k + shown) = SubSeq(list, 1, shown)
            /\ CountKind(warnings, "sub_index_not_contiguous") = (IF Dense THEN 0 ELSE 1)
            /\ TheLabels = <<0, 1, 0, 1>> =>
                  /\ Kinds(warnings) =
                        <<"non_monotonic", "non_monotonic_item", "short_segments",
                          "short_segment", "short_segment", "short_segment",
                          "short_segment">>
                  /\ NamesDecrease(warnings[2], 2)

\* more strict decreases than the warnings show
C7_Witness == pc = "done" /\ Cardinality(Decreases) > 5

---------------------------------------------------------------------------
(* C8: _check_joint_continuity *)

HasArm(frame, part) == "states" \in DOMAIN frame /\ part \in DOMAIN frame["states"]

ArmQpos(frame, part) ==
    IF "qpos" \in DOMAIN frame["states"][part] THEN frame["states"][part]["qpos"] ELSE <<>>

\* frames i-1 and i (Python positions) both carry `part` with qpos of one
\* length and joint j moves by more than 0.5 rad (2 quarter radians)
JumpAt(i, part, j) ==
    /\ HasArm(data_array[i], part) /\ HasArm(data_array[i + 1], part)
    /\ Len(ArmQpos(data_array[i], part)) = Len(ArmQpos(data_array[i + 1], part))
    /\ j < Len(ArmQpos(data_array[i], part))
    /\ Abs(ArmQpos(data_array[i + 1], part)[j + 1] - ArmQpos(data_array[i], part)[j + 1]) > 2

\* the jumps between two frames that both lie within the first 100
JumpsInWindow ==
    {t \in (1..99) \X {"left_arm", "right_arm"} \X (0..1) :
        t[1] <= Len(data_array) - 1 /\ JumpAt(t[1], t[2], t[3])}

NamesJump(w, t) ==
    w.kind = "large_jump" /\ w.frame = t[1] /\ w.key = t[2] /\ w.a = t[3]

(* C8 as claimed: exactly one warning for each (frame pair, body part,     *)
(* joint) within the first 100 frames whose difference exceeds 0.5, none   *)
(* for a difference of at most 0.5 or outside the first 100 frames.        *)
C8_AsClaimed ==
    pc = "done" =>
        /\ Len(warnings) = Cardinality(JumpsInWindow)
        /\ \A t \in JumpsInWindow :
              Cardinality({k \in 1..Len(warnings) : NamesJump(warnings[k], t)}) = 1

(* C8 as amended: the jump list holds exactly one entry for each (frame    *)
(* pair, body part, joint) within the first 100 frames whose difference    *)
(* exceeds 0.5 and nothing else; with N such jumps the warnings get        *)
(* nothing for N = 0 and otherwise one summary carrying N followed by the  *)
(* entries of the first min(N, 5) jumps in frame order.                    *)
C8_JumpWarnings ==
    pc = "done" =>
        LET list == locals["large_jumps"]
            N == Cardinality(JumpsInWindow)
            shown == IF N < 5 THEN N ELSE 5
        IN  /\ Len(list) = N
            /\ \A t \in JumpsInWindow :
                  Cardinality({k \in 1..N : NamesJump(list[k], t)}) = 1
            /\ \A k \in 1..(N - 1) : list[k].frame <= list[k + 1].frame
            /\ N = 0 => warnings = <<>>
            /\ N > 0 =>
                  warnings = <<Msg("large_jumps", NoFrame, "", N, 0)>>
                             \o SubSeq(list, 1, shown)

\* more than five jumps in the window and one more at frame 150
C8_Witness ==
    /\ pc = "done" /\ Cardinality(JumpsInWindow) > 5
    /\ Len(data_array) > 150 /\ JumpAt(150, "left_arm", 0)

---------------------------------------------------------------------------
(* C11: check_all on a record whose data array is empty *)

EmptyRecord == LoadedObject /\ TheFrames = <<>>

AfterDataArray ==
    pc \in {"images", "depths", "audios", "continuity", "ranges", "sub_index", "done"}

\* a finding that names a frame
PerFrame(m) == m.frame # NoFrame

LastKinds(list, n) == Kinds(SubSeq(list, Len(list) - n + 1, Len(list)))

(* C11: a record whose data array is empty never passes: check_all records *)
(* the 'no frames' error and returns failure, and every later check (media *)
(* files, continuity, value ranges, sub_index) completes on the empty      *)
(* array without adding a per-frame finding and without raising.           *)
C11_EmptyArrayFails ==
    EmptyRecord =>
        /\ pc # "raised"
        /\ AfterDataArray =>
              /\ CountKind(errors, "data_empty") = 1
              /\ errors[Len(errors)].kind = "data_empty"
              /\ \A m \in ToSet(errors) \cup ToSet(warnings) : ~PerFrame(m)
        /\ pc = "done" =>
              /\ calls = AllChecks
              /\ ~returned[1].success
              /\ ~returned[1].report.success
              /\ Len(warnings) >= 3
              /\ LastKinds(warnings, 3) = <<"no_depth", "no_audio", "too_few_frames">>
              /\ "total_frames" \notin DOMAIN stats
              /\ "sub_index_segments" \notin DOMAIN stats

\* an otherwise sound record with "data": [] has run every check and failed
C11_Witness ==
    /\ pc = "done" /\ EmptyRecord /\ "data" \in DOMAIN data.obj
    /\ Kinds(errors) = <<"data_empty">> /\ calls = AllChecks
    /\ ~returned[1].success

---------------------------------------------------------------------------
(* C12: _check_sub_index on frames some of which lack sub_index *)

Lacking == {i \in 1..Len(data_array) : "sub_index" \notin DOMAIN data_array[i]}

Carrying == {i \in 1..Len(data_array) : "sub_index" \in DOMAIN data_array[i]}

MixedLabelling == Lacking # {} /\ Carrying # {}

SubIndexStats ==
    {"sub_index_distribution", "sub_index_count", "sub_index_transitions",
     "sub_index_segments"}

(* C12: if at least one frame lacks sub_index while at least one other     *)
(* frame carries it, the sub_index check records an error, writes none of  *)
(* the sub_index statistics (distribution, label count, transition count,  *)
(* segment list) and adds no sub_index warning.                            *)
C12_MixedLabellingSkips ==
    (pc = "done" /\ MixedLabelling) =>
        /\ Len(errors) > 0
        /\ errors[1] = Msg("missing_sub_index_count", NoFrame, "", Cardinality(Lacking), 0)
        /\ locals["missing_sub_index"] = SortedList({i - 1 : i \in Lacking})
        /\ DOMAIN stats \cap SubIndexStats = {}
        /\ warnings = <<>>

\* frames labelled 0 and 1 around a frame without sub_index: the skipped
\* segmentation would have had a transition and short segments to report
C12_Witness ==
    /\ pc = "done" /\ MixedLabelling /\ Len(errors) = 2
    /\ \E i \in Carrying, j \in Carrying :
          data_array[i]["sub_index"] # data_array[j]["sub_index"]

---------------------------------------------------------------------------
(* C13: _check_depth_files and _check_audio_files *)

\* the (frame, entry) places of every depths reference; frames count from 1 here
DepthRefs ==
    UNION {{<<i, k>> : k \in 1..Len(Get(data_array[i], "depths", <<>>))} :
              i \in 1..Len(data_array)}

MissingDepthRefs == {p \in DepthRefs : data_array[p[1]]["depths"][p[2]][2] \notin files}

AudioOf(i) == Get(data_array[i], "audios", NoAudio)

\* the frames that name an audio file, as a string or inside a list
AudioRefs == {i \in 1..Len(data_array) : AudioOf(i).type # "None" /\ AudioOf(i).path # ""}

StringAudioRefs == {i \in AudioRefs : AudioOf(i).type = "str"}

MissingAudioRefs(refs) == {i \in refs : AudioOf(i).path \notin files}

DepthWarningKinds == IF DepthRefs = {} THEN <<"no_depth">> ELSE <<>>

DepthErrorsExpected ==
    IF MissingDepthRefs # {}
    THEN <<Msg("missing_depths", NoFrame, "", Cardinality(MissingDepthRefs), 0)>>
    ELSE <<>>

AudioWarningKinds == IF AudioRefs = {} THEN <<"no_audio">> ELSE <<>>

AudioErrorsExpected(refs) ==
    IF MissingAudioRefs(refs) # {}
    THEN <<Msg("missing_audios", NoFrame, "", Cardinality(MissingAudioRefs(refs)), 0)>>
    ELSE <<>>

(* C13 as claimed: with no depth (audio) reference in any frame the depth   *)
(* (audio) check adds exactly one warning and no error; with a referenced   *)
(* depth (audio) file that does not exist it adds an error; with every      *)
(* referenced file existing it adds neither.                                *)
C13_AsClaimed ==
    /\ pc = "call_audios" =>
          /\ Kinds(warnings) = DepthWarningKinds
          /\ Kinds(errors) = Kinds(DepthErrorsExpected)
    /\ pc = "done" =>
          /\ Kinds(warnings) = DepthWarningKinds \o AudioWarningKinds
          /\ Kinds(errors) = Kinds(DepthErrorsExpected \o AudioErrorsExpected(AudioRefs))

(* C13 as amended: with no depth reference in any frame the depth check     *)
(* adds exactly one warning and no error, with d > 0 referenced depth files *)
(* that do not exist one error carrying d and no warning, and otherwise     *)
(* neither; the audio check adds exactly one warning and no error when no   *)
(* frame carries a non-empty audios value, one error carrying a and no      *)
(* warning when a > 0 frames name, as a string, an audio file that does not *)
(* exist, and otherwise neither: an audios value that is not a string       *)
(* counts as audio data and its files are never looked up.                  *)
C13_OptionalStreams ==
    /\ pc = "call_audios" =>
          /\ Kinds(warnings) = DepthWarningKinds
          /\ errors = DepthErrorsExpected
          /\ locals["has_depth"] = (DepthRefs # {})
          /\ Len(locals["missing_depths"]) = Cardinality(MissingDepthRefs)
    /\ pc = "done" =>
          /\ Kinds(warnings) = DepthWarningKinds \o AudioWarningKinds
          /\ errors = DepthErrorsExpected \o AudioErrorsExpected(StringAudioRefs)
          /\ locals["has_audio"] = (AudioRefs # {})
          /\ Len(locals["missing_audios"]) = Cardinality(MissingAudioRefs(StringAudioRefs))

\* one depth file of two is missing, and the only audio reference is a list
\* naming a file that does not exist: one depth error, nothing from audio
C13_Witness ==
    /\ pc = "done"
    /\ Cardinality(DepthRefs) = 2 /\ Cardinality(MissingDepthRefs) = 1
    /\ AudioRefs # {} /\ StringAudioRefs = {} /\ MissingAudioRefs(AudioRefs) # {}
    /\ Kinds(errors) = <<"missing_depths">> /\ warnings = <<>>

---------------------------------------------------------------------------
(* C14: the segment list of _check_sub_index *)

RECURSIVE SumLengths(_)
SumLengths(segments) ==
    IF segments = <<>> THEN 0
    ELSE segments[1].length + SumLengths(Tail(segments))

(* C14: for n >= 1 fully labelled frames the segments partition the frame  *)
(* positions in order: the first starts at 0, the last ends at n-1, each   *)
(* start is the previous end plus 1, each length is end - start + 1 and at *)
(* least 1, the lengths sum to n, adjacent segments carry different        *)
(* labels, and there is one segment more than there are transitions.       *)
C14_SegmentsPartitionFrames ==
    (pc = "done" /\ NumLabels >= 1) =>
        LET G == stats["sub_index_segments"]
        IN  /\ Len(G) = stats["sub_index_transitions"] + 1
            /\ Len(G) = Len(locals["transitions"]) + 1
            /\ G[1].start = 0
            /\ G[Len(G)].end = NumLabels - 1
            /\ \A k \in 1..(Len(G) - 1) :
                  /\ G[k + 1].start = G[k].end + 1
                  /\ G[k + 1].sub_index # G[k].sub_index
            /\ \A k \in 1..Len(G) :
                  /\ G[k].length = G[k].end - G[k].start + 1
                  /\ G[k].length >= 1
            /\ SumLengths(G) = NumLabels

\* three segments over more than twenty frames, the middle one ten long
C14_Witness ==
    /\ pc = "done" /\ NumLabels > 20
    /\ Len(stats["sub_index_segments"]) = 3
    /\ stats["sub_index_segments"][2].length = 10
    /\ stats["sub_index_transitions"] = 2

=============================================================================
